---- MODULE Spec2Model ----
(***************************************************************************)
(* The S&P 500 volatility-regime script (analysis.ipynb.py) as a state     *)
(* machine: one action per block of the script, in program order.          *)
(*                                                                         *)
(* Numbers.  Prices live on a geometric grid: a close is stored as the     *)
(* integer k that stands for the price exp(k / Scale), so that             *)
(* ln(close_i / close_{i-1}) is exactly (k_i - k_{i-1}) / Scale.  Every    *)
(* daily move is smaller than Scale grid units, so every log return lies   *)
(* strictly between -1 and 1 and the equity curve of max_drawdown stays    *)
(* positive.  Reals are exact rationals [n, d] in lowest terms, d > 0.     *)
(* A standard deviation is stored by its square (the variance), which      *)
(* orders the same way; comparisons against a mean of two standard         *)
(* deviations (the median of an even count) are decided exactly.           *)
(* A possibly-undefined number is [nan, v]: nan = TRUE is pandas' NaN.     *)
(***************************************************************************)
EXTENDS Integers, Sequences, FiniteSets, TLC

\* rolling(window=30): window and min_periods of the rolling std
Window == 30
\* trading days per year: * 252 and * sqrt(252)
TradingDays == 252

\* resolution of the price grid: one grid unit is a log return of 1/Scale
Scale == 4
\* most observations the source returns
MaxObs == 33
\* how many of the latest daily moves vary freely
MaxFree == 3
\* longest labelled return column handed to the group-by steps on its own
MaxLen == 4
\* largest daily move, in grid units: half a log unit
MaxStep == Scale \div 2

VARIABLES
    pc,                 \* position in the script
    plotting_enabled,   \* line 22/26
    df,                 \* rows <<Date, Close>> of the frame
    log_return,         \* column df['log_return']
    rolling_volatility, \* column df['rolling_volatility'] (squared)
    median_vol,         \* line 49
    volatility_regime,  \* column df['volatility_regime']
    stats,              \* line 53-58, one record per regime present
    mdd,                \* line 67, one value per regime present
    csv,                \* data/index_prices.csv: <<>> or <<rows>>
    console,            \* what has been printed, in order
    printed,            \* the tables printed by lines 69-72: <<>> or <<tables>>
    exit_code,          \* -1 while running
    prices,             \* the series the source returned (history)
    failure             \* what ended the run early (history)

vars == <<pc, plotting_enabled, df, log_return, rolling_volatility, median_vol,
          volatility_regime, stats, mdd, csv, console, printed, exit_code,
          prices, failure>>

-----------------------------------------------------------------------------
(* Exact arithmetic *)

Abs(x) == IF x < 0 THEN -x ELSE x

RECURSIVE Gcd(_, _)
Gcd(a, b) == IF b = 0 THEN a ELSE Gcd(b, a % b)

Rat(n, d) ==
    LET g == Gcd(Abs(n), Abs(d))
        s == IF d < 0 THEN -1 ELSE 1
    IN  [n |-> s * (n \div g), d |-> s * (d \div g)]

Zero == [n |-> 0, d |-> 1]
One == [n |-> 1, d |-> 1]

RAdd(x, y) ==
    LET g == Gcd(x.d, y.d)
    IN  Rat(x.n * (y.d \div g) + y.n * (x.d \div g), (x.d \div g) * y.d)

RSub(x, y) == RAdd(x, [n |-> -y.n, d |-> y.d])

RMul(x, y) ==
    LET g1 == Gcd(Abs(x.n), y.d)
        g2 == Gcd(Abs(y.n), x.d)
    IN  Rat((x.n \div g1) * (y.n \div g2), (x.d \div g2) * (y.d \div g1))

\* x / y for y # 0
RDiv(x, y) == RMul(x, Rat(y.d, y.n))

RLe(x, y) == x.n * y.d <= y.n * x.d
RLt(x, y) == x.n * y.d < y.n * x.d

NaN == [nan |-> TRUE, v |-> Zero]
Num(x) == [nan |-> FALSE, v |-> x]

\* xs[lo] + ... + xs[hi], summed by halves
RECURSIVE SumRange(_, _, _)
SumRange(xs, lo, hi) ==
    IF lo > hi THEN Zero
    ELSE IF lo = hi THEN xs[lo]
    ELSE LET mid == (lo + hi) \div 2
         IN  RAdd(SumRange(xs, lo, mid), SumRange(xs, mid + 1, hi))
Sum(xs) == SumRange(xs, 1, Len(xs))

Squares(xs) == [i \in 1..Len(xs) |-> RMul(xs[i], xs[i])]

\* mean of a non-empty sequence
Mean(xs) == RDiv(Sum(xs), Rat(Len(xs), 1))

\* Var with ddof = 0: the population variance, 0 for a single value
VarPopulation(xs) ==
    LET c == Len(xs)
        s == Sum(xs)
    IN  IF c < 1 THEN NaN
        ELSE Num(RDiv(RSub(Sum(Squares(xs)), RDiv(RMul(s, s), Rat(c, 1))),
                      Rat(c, 1)))

\* sample variance (ddof = 1): the square of pandas' std; NaN below 2 values
Var(xs) ==
    LET c == Len(xs)
        s == Sum(xs)
    IN  IF c < 2 THEN NaN
        ELSE Num(RDiv(RSub(Sum(Squares(xs)), RDiv(RMul(s, s), Rat(c, 1))),
                      Rat(c - 1, 1)))

-----------------------------------------------------------------------------
(* The inputs *)

Steps == (-MaxStep)..MaxStep

\* the moves that vary: the latest ones (MaxFree of them once a rolling window
\* is full, one fewer before that) and, once the series is long enough for it
\* to leave the rolling window, the first one; the days between are flat
Free(m) ==
    IF m >= Window THEN {i \in 1..m : i > m - MaxFree \/ i = 1}
    ELSE {i \in 1..m : i > m - (MaxFree - 1)}

StepSeqs(m) ==
    {[i \in 1..m |-> IF i \in Free(m) THEN f[i] ELSE 0] : f \in [Free(m) -> Steps]}

\* ds[lo] + ... + ds[hi]
RECURSIVE Moved(_, _, _)
Moved(ds, lo, hi) ==
    IF lo > hi THEN 0
    ELSE IF lo = hi THEN ds[lo]
    ELSE LET mid == (lo + hi) \div 2
         IN  Moved(ds, lo, mid) + Moved(ds, mid + 1, hi)

\* the frame after reset_index()[['Date', 'Close']]: the first close is grid
\* point 0, each later one the moves so far
Frame(n, ds) == [i \in 1..n |-> [Date |-> i, Close |-> Moved(ds, 1, i - 1)]]

FetchedFrames ==
    UNION {{Frame(n, ds) : ds \in StepSeqs(IF n = 0 THEN 0 ELSE n - 1)} : n \in 0..MaxObs}

-----------------------------------------------------------------------------
(* The script's computations *)

\* ensure_package: the import in the finally clause decides (the return there
\* discards whatever the install raised); it succeeds when the package was
\* importable or the install made it so
ensure_package(importable, installable) ==
    IF importable \/ installable THEN "module" ELSE "raise"

\* np.log(df['Close'] / df['Close'].shift(1))
LogReturns(frame) ==
    [i \in 1..Len(frame) |->
        IF i = 1 THEN NaN
        ELSE Num(Rat(frame[i].Close - frame[i - 1].Close, Scale))]

\* the rows dropna keeps
Kept(col) == {i \in 1..Len(col) : ~col[i].nan}

\* the rows lo..hi of xs whose index is in keep, in order
RECURSIVE SelectRange(_, _, _, _)
SelectRange(xs, keep, lo, hi) ==
    IF lo > hi THEN <<>>
    ELSE IF lo = hi THEN (IF lo \in keep THEN <<xs[lo]>> ELSE <<>>)
    ELSE LET mid == (lo + hi) \div 2
         IN  SelectRange(xs, keep, lo, mid) \o SelectRange(xs, keep, mid + 1, hi)
SelectRows(xs, keep) == SelectRange(xs, keep, 1, Len(xs))

Values(col) == SubSeq([i \in 1..Len(col) |-> col[i].v], 1, Len(col))

\* rolling(window=30).std() * sqrt(252), squared
Rolling(col) ==
    [i \in 1..Len(col) |->
        IF i < Window THEN NaN
        ELSE LET v == Var(Values(SubSeq(col, i - Window + 1, i)))
             IN  Num(RMul(v.v, Rat(TradingDays, 1)))]

RECURSIVE InsertSorted(_, _)
InsertSorted(x, s) ==
    IF s = <<>> THEN <<x>>
    ELSE IF RLe(x, Head(s)) THEN <<x>> \o s
    ELSE <<Head(s)>> \o InsertSorted(x, Tail(s))

RECURSIVE SortFrom(_, _, _)
SortFrom(xs, i, acc) ==
    IF i > Len(xs) THEN acc ELSE SortFrom(xs, i + 1, InsertSorted(xs[i], acc))

\* Series.median(): NaN skipped; the middle value, or the mean of the two
\* middle values, kept as the pair <<lo, hi>> of squares it is the mean of
Median(col) ==
    LET s == SortFrom(Values(SelectRows(col, Kept(col))), 1, <<>>)
        k == Len(s)
    IN  IF k = 0 THEN [nan |-> TRUE, lo |-> Zero, hi |-> Zero]
        ELSE IF k % 2 = 1
             THEN [nan |-> FALSE, lo |-> s[(k + 1) \div 2], hi |-> s[(k + 1) \div 2]]
             ELSE [nan |-> FALSE, lo |-> s[k \div 2], hi |-> s[k \div 2 + 1]]

\* For x = sqrt(x2) and med = (sqrt(lo) + sqrt(hi)) / 2, with a, b, c the
\* three squares over a common denominator: l = 4a - b - c and r = 4bc, so
\* that 2 sqrt(a) <= sqrt(b) + sqrt(c) exactly when l <= 0 or l^2 <= r
MedianGap(x2, med) ==
    LET dd == x2.v.d * (med.lo.d \div Gcd(x2.v.d, med.lo.d))
        den == dd * (med.hi.d \div Gcd(dd, med.hi.d))
        a0 == x2.v.n * (den \div x2.v.d)
        b0 == med.lo.n * (den \div med.lo.d)
        c0 == med.hi.n * (den \div med.hi.d)
        g0 == Gcd(Gcd(a0, b0), c0)
        g == IF g0 = 0 THEN 1 ELSE g0
    IN  [l |-> 4 * (a0 \div g) - (b0 \div g) - (c0 \div g),
         r |-> 4 * (b0 \div g) * (c0 \div g)]

\* LeMedian with < in place of <=
LtMedian(x2, med) ==
    /\ ~x2.nan
    /\ ~med.nan
    /\ LET m == MedianGap(x2, med)
       IN  m.l < 0 \/ m.l * m.l < m.r

\* x <= med; any comparison with NaN is False
LeMedian(x2, med) ==
    /\ ~x2.nan
    /\ ~med.nan
    /\ LET m == MedianGap(x2, med)
       IN  m.l <= 0 \/ m.l * m.l <= m.r

\* np.where(df['rolling_volatility'] <= median_vol, 'Low ...', 'High ...')
Classify(col, med) ==
    [i \in 1..Len(col) |->
        IF LeMedian(col[i], med) THEN "Low Volatility" ELSE "High Volatility"]

\* the rows of one group, in frame order
Group(labels, g) == {i \in 1..Len(labels) : labels[i] = g}
GroupReturns(col, labels, g) == Values(SelectRows(col, Group(labels, g)))
Groups(labels) == {labels[i] : i \in 1..Len(labels)}

\* groupby(...)['log_return'].agg(mean, std) and the two annualized columns
Stats(col, labels) ==
    [g \in Groups(labels) |->
        LET xs == GroupReturns(col, labels, g)
            sd == Var(xs)
        IN  [mean_return |-> Mean(xs),
             volatility |-> sd,
             annualized_return |-> RMul(Mean(xs), Rat(TradingDays, 1)),
             annualized_volatility |->
                 IF sd.nan THEN NaN ELSE Num(RMul(sd.v, Rat(TradingDays, 1)))]]

RMax(x, y) == IF RLe(x, y) THEN y ELSE x
RMin(x, y) == IF RLe(x, y) THEN x ELSE y

\* the running products of 1 + xs[lo..hi], carried on from the product
\* before; the range is done by halves
RECURSIVE CumprodRange(_, _, _, _)
CumprodRange(xs, lo, hi, before) ==
    IF lo > hi THEN <<>>
    ELSE IF lo = hi THEN <<RMul(before, RAdd(One, xs[lo]))>>
    ELSE LET mid == (lo + hi) \div 2
             left == CumprodRange(xs, lo, mid, before)
         IN  left \o CumprodRange(xs, mid + 1, hi, left[Len(left)])

\* (1 + returns).cumprod()
cumprod(xs) == CumprodRange(xs, 1, Len(xs), One)

\* the running maxima of cs[lo..hi], carried on from the maximum before
RECURSIVE CummaxRange(_, _, _, _)
CummaxRange(cs, lo, hi, before) ==
    IF lo > hi THEN <<>>
    ELSE IF lo = hi THEN <<RMax(before, cs[lo])>>
    ELSE LET mid == (lo + hi) \div 2
             left == CummaxRange(cs, lo, mid, before)
         IN  left \o CummaxRange(cs, mid + 1, hi, left[Len(left)])

\* cummax with the running peak started at the initial equity 1.0
cummaxWithStart(cs) == CummaxRange(cs, 1, Len(cs), One)

\* cumulative.cummax(): the first peak is the first value
cummax(cs) == IF Len(cs) = 0 THEN <<>> ELSE CummaxRange(cs, 1, Len(cs), cs[1])

\* the highest of cs[lo..hi]
RECURSIVE MaxRange(_, _, _)
MaxRange(cs, lo, hi) ==
    IF lo = hi THEN cs[lo]
    ELSE LET mid == (lo + hi) \div 2
         IN  RMax(MaxRange(cs, lo, mid), MaxRange(cs, mid + 1, hi))

\* the lowest of cs[lo..hi]
RECURSIVE MinRange(_, _, _)
MinRange(cs, lo, hi) ==
    IF lo = hi THEN cs[lo]
    ELSE LET mid == (lo + hi) \div 2
         IN  RMin(MinRange(cs, lo, mid), MinRange(cs, mid + 1, hi))

\* (cumulative - peak) / peak
Drawdown(cumulative, peak) ==
    SubSeq([i \in 1..Len(cumulative) |->
               RDiv(RSub(cumulative[i], peak[i]), peak[i])], 1, Len(cumulative))

\* Min with the comparison turned round: drawdown.max()
MaxOf(xs) == MaxRange(xs, 1, Len(xs))

\* drawdown.min() of a non-empty series
Min(xs) == MinRange(xs, 1, Len(xs))

max_drawdown(xs) ==
    LET cumulative == cumprod(xs)
        peak == cummax(cumulative)
    IN  Min(Drawdown(cumulative, peak))

\* groupby(...)['log_return'].apply(max_drawdown)
Mdd(col, labels) ==
    [g \in Groups(labels) |-> max_drawdown(GroupReturns(col, labels, g))]

-----------------------------------------------------------------------------
(* The script *)

NoMedian == [nan |-> TRUE, lo |-> Zero, hi |-> Zero]

Init ==
    /\ pc = "bootstrap"
    /\ plotting_enabled = TRUE
    /\ df = <<>>
    /\ log_return = <<>>
    /\ rolling_volatility = <<>>
    /\ median_vol = NoMedian
    /\ volatility_regime = <<>>
    /\ stats = <<>>
    /\ mdd = <<>>
    /\ csv = <<>>
    /\ console = <<>>
    /\ printed = <<>>
    /\ exit_code = -1
    /\ prices = <<>>
    /\ failure = "none"

\* an uncaught exception: traceback, exit status 1
Crash(why) ==
    /\ pc' = "crashed"
    /\ exit_code' = 1
    /\ failure' = why

\* lines 18-27
Bootstrap ==
    /\ pc = "bootstrap"
    /\ \E coreImportable, coreInstallable, pltImportable, pltInstallable \in BOOLEAN :
          IF ensure_package(coreImportable, coreInstallable) = "raise"
          THEN /\ Crash("import")
               /\ UNCHANGED <<plotting_enabled, console>>
          ELSE /\ plotting_enabled' =
                      (ensure_package(pltImportable, pltInstallable) = "module")
               /\ console' = IF plotting_enabled' THEN console
                             ELSE Append(console, "Warning: matplotlib is not available")
               /\ pc' = "download"
               /\ UNCHANGED <<exit_code, failure>>
    /\ UNCHANGED <<df, log_return, rolling_volatility, median_vol, volatility_regime,
                   stats, mdd, csv, printed, prices>>

\* lines 30-36
Download ==
    /\ pc = "download"
    /\ \/ /\ console' = console \o <<"Downloading", "Error downloading data">>
          /\ pc' = "exited"
          /\ exit_code' = 1
          /\ failure' = "fetch"
          /\ UNCHANGED <<df, prices>>
       \/ \E frame \in FetchedFrames :
             /\ df' = frame
             /\ prices' = frame
             /\ console' = Append(console, "Downloading")
             /\ pc' = "save"
             /\ UNCHANGED <<exit_code, failure>>
    /\ UNCHANGED <<plotting_enabled, log_return, rolling_volatility, median_vol,
                   volatility_regime, stats, mdd, csv, printed>>

\* lines 39-41
Save ==
    /\ pc = "save"
    /\ \E writable \in BOOLEAN :
          IF writable
          THEN /\ csv' = <<df>>
               /\ console' = Append(console, "Data saved")
               /\ pc' = "returns"
               /\ UNCHANGED <<exit_code, failure>>
          ELSE /\ Crash("write")
               /\ UNCHANGED <<csv, console>>
    /\ UNCHANGED <<plotting_enabled, df, log_return, rolling_volatility, median_vol,
                   volatility_regime, stats, mdd, printed, prices>>

\* lines 44-45
ComputeReturns ==
    /\ pc = "returns"
    /\ LET col == LogReturns(df)
       IN  /\ df' = SelectRows(df, Kept(col))
           /\ log_return' = SelectRows(col, Kept(col))
    /\ pc' = "volatility"
    /\ UNCHANGED <<plotting_enabled, rolling_volatility, median_vol, volatility_regime,
                   stats, mdd, csv, console, printed, exit_code, prices, failure>>

\* line 46
ComputeVolatility ==
    /\ pc = "volatility"
    /\ rolling_volatility' = Rolling(log_return)
    /\ pc' = "classify"
    /\ UNCHANGED <<plotting_enabled, df, log_return, median_vol, volatility_regime,
                   stats, mdd, csv, console, printed, exit_code, prices, failure>>

\* lines 49-50
ClassifyRegime ==
    /\ pc = "classify"
    /\ median_vol' = Median(rolling_volatility)
    /\ volatility_regime' = Classify(rolling_volatility, median_vol')
    /\ pc' = "stats"
    /\ UNCHANGED <<plotting_enabled, df, log_return, rolling_volatility, stats, mdd,
                   csv, console, printed, exit_code, prices, failure>>

\* lines 53-58
Statistics ==
    /\ pc = "stats"
    /\ stats' = Stats(log_return, volatility_regime)
    /\ pc' = "drawdown"
    /\ UNCHANGED <<plotting_enabled, df, log_return, rolling_volatility, median_vol,
                   volatility_regime, mdd, csv, console, printed, exit_code, prices,
                   failure>>

\* lines 61-67
MaxDrawdown ==
    /\ pc = "drawdown"
    /\ mdd' = Mdd(log_return, volatility_regime)
    /\ pc' = "report"
    /\ UNCHANGED <<plotting_enabled, df, log_return, rolling_volatility, median_vol,
                   volatility_regime, stats, csv, console, printed, exit_code, prices,
                   failure>>

\* Report moved inside the plotting branch: nothing is printed without a backend
ReportIfPlotting ==
    /\ pc = "report"
    /\ console' = IF plotting_enabled
                  THEN console \o <<"Annualized statistics by volatility regime",
                                    "Maximum drawdown by regime">>
                  ELSE console
    /\ printed' = IF plotting_enabled THEN <<[stats |-> stats, mdd |-> mdd]>> ELSE printed
    /\ pc' = "plot"
    /\ UNCHANGED <<plotting_enabled, df, log_return, rolling_volatility, median_vol,
                   volatility_regime, stats, mdd, csv, exit_code, prices, failure>>

\* lines 69-72
Report ==
    /\ pc = "report"
    /\ console' = console \o <<"Annualized statistics by volatility regime",
                               "Maximum drawdown by regime">>
    /\ printed' = <<[stats |-> stats, mdd |-> mdd]>>
    /\ pc' = "plot"
    /\ UNCHANGED <<plotting_enabled, df, log_return, rolling_volatility, median_vol,
                   volatility_regime, stats, mdd, csv, exit_code, prices, failure>>

\* lines 75-102
Plot ==
    /\ pc = "plot"
    /\ console' = IF plotting_enabled THEN Append(console, "figures shown")
                  ELSE Append(console, "Plotting skipped")
    /\ pc' = "done"
    /\ exit_code' = 0
    /\ UNCHANGED <<plotting_enabled, df, log_return, rolling_volatility, median_vol,
                   volatility_regime, stats, mdd, csv, printed, prices, failure>>

Next ==
    \/ Bootstrap
    \/ Download
    \/ Save
    \/ ComputeReturns
    \/ ComputeVolatility
    \/ ClassifyRegime
    \/ Statistics
    \/ MaxDrawdown
    \/ Report
    \/ Plot

Spec == Init /\ [][Next]_vars

-----------------------------------------------------------------------------
(* The group-by steps (lines 53-67) on their own: any column of log returns *)
(* of up to MaxLen rows, labelled in any way                                *)

Labels == {"Low Volatility", "High Volatility"}

ReturnColumns ==
    UNION {[1..k -> {Num(Rat(d, Scale)) : d \in Steps}] : k \in 1..MaxLen}

InitGroups ==
    /\ pc = "stats"
    /\ log_return \in ReturnColumns
    /\ volatility_regime \in [1..Len(log_return) -> Labels]
    /\ plotting_enabled = TRUE
    /\ df = <<>>
    /\ rolling_volatility = <<>>
    /\ median_vol = NoMedian
    /\ stats = <<>>
    /\ mdd = <<>>
    /\ csv = <<>>
    /\ console = <<>>
    /\ printed = <<>>
    /\ exit_code = -1
    /\ prices = <<>>
    /\ failure = "none"

NextGroups ==
    \/ Statistics
    \/ MaxDrawdown

SpecGroups == InitGroups /\ [][NextGroups]_vars

-----------------------------------------------------------------------------
(* What the properties below speak of *)

\* the source has answered: the download block was left without an error
Fetched == pc \notin {"bootstrap", "download"} /\ failure \notin {"import", "fetch"}
Ended == pc \in {"done", "exited", "crashed"}
Classified == pc \in {"stats", "drawdown", "report", "plot", "done"}
MddDone == pc \in {"report", "plot", "done"}

\* a non-empty series too short for a single rolling window of returns
InsufficientHistory == Fetched /\ Len(prices) >= 1 /\ Len(prices) < Window + 1

DefinedRows == {i \in 1..Len(rolling_volatility) : ~rolling_volatility[i].nan}
RowsOf(g) == {i \in 1..Len(volatility_regime) : volatility_regime[i] = g}

\* the returns of regime g, oldest first
PartitionOf(g) ==
    [k \in 1..Cardinality(RowsOf(g)) |->
        log_return[CHOOSE i \in RowsOf(g) :
                       Cardinality({j \in RowsOf(g) : j <= i}) = k].v]

\* the compounded equity after i returns: 1.0 before the first
RECURSIVE Equity(_, _)
Equity(xs, i) == IF i = 0 THEN One ELSE RMul(Equity(xs, i - 1), RAdd(One, xs[i]))

Highest(S) == CHOOSE p \in S : \A q \in S : RLe(q, p)
Lowest(S) == CHOOSE p \in S : \A q \in S : RLe(p, q)

\* (cum_i - peak_i) / peak_i with peak_i the highest of cum_from .. cum_i
DrawdownAt(xs, i, from) ==
    LET peak == Highest({Equity(xs, j) : j \in from..i})
    IN  RDiv(RSub(Equity(xs, i), peak), peak)

MinDrawdown(xs, from) == Lowest({DrawdownAt(xs, i, from) : i \in 1..Len(xs)})

NonDecreasing(xs) == \A i \in 2..Len(xs) : RLe(Equity(xs, i - 1), Equity(xs, i))

\* the two tables as a function of the fetched series alone
ReportOf(frame) ==
    LET col == LogReturns(frame)
        lr == SelectRows(col, Kept(col))
        rv == Rolling(lr)
        labels == Classify(rv, Median(rv))
    IN  [stats |-> Stats(lr, labels), mdd |-> Mdd(lr, labels)]

-----------------------------------------------------------------------------
(* The claims *)

\* C1: whenever the fetch raised or returned zero observations, the run halts
\* before the CSV snapshot is written and before any computation.
C1_NoDataHaltsBeforeSave ==
    (failure = "fetch" \/ (Fetched /\ prices = <<>>))
        => (csv = <<>> /\ pc \in {"save", "exited", "crashed"})

\* C2: a row whose rolling volatility is undefined gets no regime label and
\* its return enters no regime's statistics or drawdown.
C2_UndefinedRowsExcluded ==
    Classified =>
        /\ \A i \in 1..Len(rolling_volatility) :
              rolling_volatility[i].nan => volatility_regime[i] \notin Labels
        /\ \A g \in DOMAIN stats : RowsOf(g) \subseteq DefinedRows
        /\ \A g \in DOMAIN mdd : RowsOf(g) \subseteq DefinedRows

\* C3: a non-empty series of fewer than window+1 observations makes the run
\* fail after the snapshot is written, without printing per-regime statistics.
C3_ShortHistoryFails ==
    InsufficientHistory => (printed = <<>> /\ pc # "done")

\* C4: a run that meets a fatal error (fetch failure, snapshot write failure,
\* insufficient history) ends with a non-zero exit and prints neither table;
\* the tables are printed only after the snapshot was written.
C4_FatalErrorPrintsNothing ==
    /\ (failure \in {"fetch", "write"} \/ InsufficientHistory)
          => (printed = <<>> /\ (Ended => exit_code # 0))
    /\ (printed # <<>> => csv # <<>>)

\* C5: the printed tables are a function of the fetched series alone, whatever
\* plotting_enabled is; a run without a chart backend is never ended by that,
\* it reaches the report; and the report is printed before any rendering step.
C5_ReportIndependentOfBackend ==
    /\ (pc \in {"plot", "done"} => printed # <<>>)
    /\ (pc = "done" => printed[1] = ReportOf(prices))
    /\ ((~plotting_enabled /\ pc \in {"exited", "crashed"})
          => failure \in {"fetch", "write"})
    /\ \A i \in 1..Len(console) :
          console[i] \in {"figures shown", "Plotting skipped"}
              => \E j \in 1..(i - 1) : console[j] = "Maximum drawdown by regime"

C5_Witness ==
    /\ pc = "done"
    /\ ~plotting_enabled
    /\ printed # <<>>
    /\ DOMAIN printed[1].stats = Labels
    /\ console[Len(console)] = "Plotting skipped"

\* C6: every row with a defined rolling volatility is labelled Low or High, and
\* Low exactly when its volatility is <= the median of the defined values.  A
\* value is <= the median of k values exactly when fewer than k/2 of them are
\* strictly below it; so a value equal to the median is Low.
C6_RegimeTotalAtMedian ==
    Classified =>
        \A i \in DefinedRows :
            /\ volatility_regime[i] \in Labels
            /\ volatility_regime[i] = "Low Volatility"
                  <=> 2 * Cardinality({j \in DefinedRows :
                            RLt(rolling_volatility[j].v, rolling_volatility[i].v)})
                        < Cardinality(DefinedRows)

C6_Witness ==
    /\ Classified
    /\ \E i, j \in DefinedRows :
          /\ median_vol.lo = rolling_volatility[i].v
          /\ median_vol.hi = rolling_volatility[i].v
          /\ volatility_regime[i] = "Low Volatility"
          /\ volatility_regime[j] = "High Volatility"

C8_ConstantReturnsNoHigh ==
    (/\ Classified
     /\ Len(log_return) >= Window
     /\ \A i \in 1..Len(log_return) : log_return[i] = log_return[1])
        => /\ \A i \in 1..Len(volatility_regime) :
                 volatility_regime[i] # "High Volatility"
           /\ "High Volatility" \notin DOMAIN stats
           /\ failure = "none"

\* C9: a regime with exactly one observation has an undefined standard
\* deviation and annualized volatility (not zero, not an error) and a maximum
\* drawdown of 0, and the run goes on to the report and ends normally.
C9_SingletonPartition ==
    MddDone =>
        \A g \in Labels :
            Cardinality(RowsOf(g)) = 1 =>
                /\ g \in DOMAIN stats
                /\ stats[g].volatility.nan
                /\ stats[g].annualized_volatility.nan
                /\ g \in DOMAIN mdd
                /\ mdd[g] = Zero
                /\ failure = "none"
                /\ (pc = "done" => (printed # <<>> /\ exit_code = 0))

C9_Witness ==
    /\ pc = "done"
    /\ printed # <<>>
    /\ Cardinality(RowsOf("Low Volatility")) = 1
    /\ RLt(PartitionOf("Low Volatility")[1], Zero)
    /\ printed[1].stats["Low Volatility"].volatility.nan
    /\ printed[1].mdd["Low Volatility"] = Zero

\* C10 as stated: the maximum drawdown of a regime's returns, oldest first, is
\* the lowest (cum_i - peak_i) / peak_i where the running peak counts the
\* starting equity cum_0 = 1.0.
C10_DrawdownPeakFromStart ==
    MddDone =>
        \A g \in Labels :
            RowsOf(g) # {} => mdd[g] = MinDrawdown(PartitionOf(g), 0)

\* C10 amended: the same with the running peak taken over cum_1 .. cum_i only:
\* the curve's first point is cum_1 = 1 + return_1 and the starting 1.0 is no
\* peak.
C10_DrawdownPeakFromFirst ==
    MddDone =>
        \A g \in Labels :
            RowsOf(g) # {} => mdd[g] = MinDrawdown(PartitionOf(g), 1)

C10_Witness ==
    /\ MddDone
    /\ \E g \in Labels :
          /\ \E i, j, k \in 1..Len(volatility_regime) :
                /\ i < j /\ j < k
                /\ volatility_regime[i] = g
                /\ volatility_regime[j] # g
                /\ volatility_regime[k] = g
          /\ RLt(PartitionOf(g)[1], Zero)
          /\ RLt(mdd[g], Zero)
          /\ mdd[g] # MinDrawdown(PartitionOf(g), 0)

====
